---- MODULE Spec2Model ----
(***************************************************************************)
(* Model of prompter's shell-completion augmentation (src/completions.rs). *)
(*                                                                         *)
(* Text is a sequence of units.  In a script a unit is a lexical piece of  *)
(* the shell source: "\n" is a newline, "    " is four spaces (every       *)
(* indentation of the generated scripts is a multiple of four), and the    *)
(* other units are pieces of text that the patterns of completions.rs      *)
(* either match whole or not at all.  A command-line word is a sequence of *)
(* one-character units.                                                    *)
(***************************************************************************)
EXTENDS Integers, Sequences, FiniteSets, TLC

VARIABLES
    pc,         \* position of the running operation
    emitted,    \* number of chunks the generator has emitted
    shell,      \* generate's argument
    raw,        \* the text the operation started from
    script,     \* the script buffer
    call,       \* <<label, replacement>> of the last replace_case_block call
    panic,      \* the panic message, NoPanic while none was raised
    out,        \* the byte sequences the output sink has received, in order
    words,      \* the command line, program name first
    cword,      \* 1-based position in words of the word being completed
    listing,    \* what `prompter list` prints at completion time
    helper,     \* the emitted shell function that ran
    output,     \* what that function printed
    COMPREPLY,  \* the candidates it offered
    listCmds    \* the command lines it spawned

vars == <<pc, emitted, shell, raw, script, call, panic, out,
          words, cword, listing, helper, output, COMPREPLY, listCmds>>
genVars == <<pc, emitted, shell, raw, script, call, panic, out>>
shellVars == <<words, cword, listing, helper, output, COMPREPLY, listCmds>>

\* ------------------------------------------------------------------ bounds

MaxPatchChunks == 4
MaxChunks == 5
MaxPartial == 1
MaxWords == 4
MaxCompWords == 3

\* ------------------------------------------------------------------- text

NL == "\n"
SP4 == "    "
TAB == "\t"
NoPanic == <<>>

\* The offsets at which pat matches in hay.
matches(hay, pat) ==
    {i \in 0..(Len(hay) - Len(pat)) : SubSeq(hay, i + 1, i + Len(pat)) = pat}

\* str::find: the offset of the first match, -1 for None.
find(hay, pat) ==
    LET m == matches(hay, pat) IN
    IF m = {} THEN -1 ELSE CHOOSE i \in m : \A j \in m : i <= j

\* str::contains
contains(hay, pat) == find(hay, pat) # -1

\* String::replace_range(start..end, with), offsets counted from 0.
replace_range(s, start, end, with) ==
    SubSeq(s, 1, start) \o with \o SubSeq(s, end + 1, Len(s))

push_str(s, t) == s \o t

\* ------------------------------------------------------- replace_case_block

Labels == {"prompter", "prompter__run"}

\* label followed by ')'
Closed(label) == IF label = "prompter" THEN "prompter)" ELSE "prompter__run)"

\* format!("        {label})")
Pattern(label) == <<SP4, SP4, Closed(label)>>

\* "\n            ;;\n"
TERMINATOR == <<NL, SP4, SP4, SP4, ";;", NL>>

ROOT_REPLACEMENT ==
    <<SP4, SP4, "prompter)", NL,
      SP4, SP4, SP4, "opts=\"-s -p -P -c -h -V --separator --pre-prompt --post-prompt --config --help --version version license init list validate run completions doctor update help\"", NL,
      SP4, SP4, SP4, "if [[ ${cur} == -* ]]; then", NL,
      SP4, SP4, SP4, SP4, "COMPREPLY=( $(compgen -W \"${opts}\" -- \"${cur}\") )", NL,
      SP4, SP4, SP4, SP4, "return 0", NL,
      SP4, SP4, SP4, "fi", NL,
      SP4, SP4, SP4, "case \"${prev}\" in", NL,
      SP4, SP4, SP4, SP4, "--config|-c)", NL,
      SP4, SP4, SP4, SP4, SP4, "COMPREPLY=( $(compgen -f -- \"${cur}\") )", NL,
      SP4, SP4, SP4, SP4, SP4, "return 0", NL,
      SP4, SP4, SP4, SP4, SP4, ";;", NL,
      SP4, SP4, SP4, SP4, "--separator|-s|--pre-prompt|-p|--post-prompt|-P)", NL,
      SP4, SP4, SP4, SP4, SP4, "return 0", NL,
      SP4, SP4, SP4, SP4, SP4, ";;", NL,
      SP4, SP4, SP4, "esac", NL,
      SP4, SP4, SP4, "local profiles=\"$(__prompter_bash_list_profiles)\"", NL,
      SP4, SP4, SP4, "if [[ -n ${profiles} ]]; then", NL,
      SP4, SP4, SP4, SP4, "COMPREPLY=( $(compgen -W \"${opts} ${profiles}\" -- \"${cur}\") )", NL,
      SP4, SP4, SP4, "else", NL,
      SP4, SP4, SP4, SP4, "COMPREPLY=( $(compgen -W \"${opts}\" -- \"${cur}\") )", NL,
      SP4, SP4, SP4, "fi", NL,
      SP4, SP4, SP4, "return 0", NL,
      SP4, SP4, SP4, ";;">>

RUN_REPLACEMENT ==
    <<SP4, SP4, "prompter__run)", NL,
      SP4, SP4, SP4, "opts=\"-s -p -P -c -h --separator --pre-prompt --post-prompt --config --help\"", NL,
      SP4, SP4, SP4, "if [[ ${cur} == -* ]]; then", NL,
      SP4, SP4, SP4, SP4, "COMPREPLY=( $(compgen -W \"${opts}\" -- \"${cur}\") )", NL,
      SP4, SP4, SP4, SP4, "return 0", NL,
      SP4, SP4, SP4, "fi", NL,
      SP4, SP4, SP4, "case \"${prev}\" in", NL,
      SP4, SP4, SP4, SP4, "--config|-c)", NL,
      SP4, SP4, SP4, SP4, SP4, "COMPREPLY=( $(compgen -f -- \"${cur}\") )", NL,
      SP4, SP4, SP4, SP4, SP4, "return 0", NL,
      SP4, SP4, SP4, SP4, SP4, ";;", NL,
      SP4, SP4, SP4, SP4, "--separator|-s|--pre-prompt|-p|--post-prompt|-P)", NL,
      SP4, SP4, SP4, SP4, SP4, "return 0", NL,
      SP4, SP4, SP4, SP4, SP4, ";;", NL,
      SP4, SP4, SP4, "esac", NL,
      SP4, SP4, SP4, "local profiles=\"$(__prompter_bash_list_profiles)\"", NL,
      SP4, SP4, SP4, "if [[ -n ${profiles} ]]; then", NL,
      SP4, SP4, SP4, SP4, "COMPREPLY=( $(compgen -W \"${profiles}\" -- \"${cur}\") )", NL,
      SP4, SP4, SP4, "fi", NL,
      SP4, SP4, SP4, "return 0", NL,
      SP4, SP4, SP4, ";;">>

replace_case_block_EndExcludesTerminator(s, label, replacement) ==
    LET start == find(s, Pattern(label)) IN
    IF start = -1
    THEN [script |-> s, panic |-> <<"expected case block for", label>>]
    ELSE LET end_offset == find(SubSeq(s, start + 1, Len(s)), TERMINATOR) IN
         IF end_offset = -1
         THEN [script |-> s, panic |-> <<"expected terminator for", label, "block">>]
         ELSE [script |-> replace_range(s, start, start + end_offset, replacement),
               panic |-> NoPanic]

replace_case_block_SearchesWholeScript(s, label, replacement) ==
    LET start == find(s, Pattern(label)) IN
    IF start = -1
    THEN [script |-> s, panic |-> <<"expected case block for", label>>]
    ELSE LET end_offset == find(s, TERMINATOR) IN
         IF end_offset = -1
         THEN [script |-> s, panic |-> <<"expected terminator for", label, "block">>]
         ELSE IF end_offset < start
         THEN [script |-> replace_range(s, start, start + Len(Pattern(label)), replacement),
               panic |-> NoPanic]
         ELSE [script |-> replace_range(s, start, end_offset + Len(TERMINATOR), replacement),
               panic |-> NoPanic]

\* The buffer after the call and the panic it raised, if any.
replace_case_block(s, label, replacement) ==
    LET pattern == Pattern(label)
        start == find(s, pattern)
    IN  IF start = -1
        THEN [script |-> s, panic |-> <<"expected case block for", label>>]
        ELSE LET tail == SubSeq(s, start + 1, Len(s))
                 end_offset == find(tail, TERMINATOR)
             IN  IF end_offset = -1
                 THEN [script |-> s,
                       panic |-> <<"expected terminator for", label, "block">>]
                 ELSE LET end == start + end_offset + Len(TERMINATOR)
                      IN  [script |-> replace_range(s, start, end, replacement),
                           panic |-> NoPanic]

\* ---------------------------------------------- specification SpecPatch
\* replace_case_block applied to the scripts a generator can emit: any
\* sequence of at most MaxPatchChunks chunks, a chunk being one unit or one
\* whole pattern.

PatchChunks ==
    {<<NL>>, <<SP4>>, <<";;">>, <<"prompter)">>, <<"prompter__run)">>, <<"x">>,
     Pattern("prompter"), Pattern("prompter__run"), TERMINATOR}

Replacements == {ROOT_REPLACEMENT, RUN_REPLACEMENT}

IdleShell ==
    /\ words = <<>>
    /\ cword = 0
    /\ listing = <<>>
    /\ helper = "none"
    /\ output = <<>>
    /\ COMPREPLY = <<>>
    /\ listCmds = <<>>

IdleGen ==
    /\ pc = "idle"
    /\ emitted = 0
    /\ shell = "none"
    /\ raw = <<>>
    /\ script = <<>>
    /\ call = <<>>
    /\ panic = NoPanic
    /\ out = <<>>

InitPatch ==
    /\ pc = "emit"
    /\ emitted = 0
    /\ shell = "none"
    /\ raw = <<>>
    /\ script = <<>>
    /\ call = <<>>
    /\ panic = NoPanic
    /\ out = <<>>
    /\ IdleShell

\* The caller builds the buffer.
PatchEmit(chunk) ==
    /\ pc = "emit"
    /\ emitted < MaxPatchChunks
    /\ emitted' = emitted + 1
    /\ script' = push_str(script, chunk)
    /\ UNCHANGED <<pc, shell, raw, call, panic, out>>
    /\ UNCHANGED shellVars

CallReplaceCaseBlock(label, replacement) ==
    /\ pc = "emit"
    /\ LET r == replace_case_block(script, label, replacement) IN
        /\ script' = r.script
        /\ panic' = r.panic
        /\ pc' = IF r.panic = NoPanic THEN "returned" ELSE "panicked"
    /\ raw' = script
    /\ call' = <<label, replacement>>
    /\ UNCHANGED <<emitted, shell, out>>
    /\ UNCHANGED shellVars

NextPatch ==
    \/ \E chunk \in PatchChunks : PatchEmit(chunk)
    \/ \E label \in Labels, replacement \in Replacements :
          CallReplaceCaseBlock(label, replacement)

SpecPatch == InitPatch /\ [][NextPatch]_vars

\* ------------------------------------------------------------- generate

Shells == {"Bash", "Zsh", "Fish", "PowerShell", "Elvish", "Other"}

\* cmd.get_name()
BinName == "prompter"

\* A byte that is not valid UTF-8.
INVALID == "\\xFF"
PROFILE == "[PROFILE]"

render_instructions(sh, bin_name) ==
    <<"# Shell completion for ", bin_name,
      "\n#\n# To enable completions, add this to your shell config:\n#\n#   ">>
    \o (CASE sh = "Bash" -> <<"source <(", bin_name, " completions bash)">>
          [] sh = "Zsh" -> <<bin_name, " completions zsh > ~/.zsh/completions/_", bin_name,
                             "\n#   Ensure fpath includes ~/.zsh/completions">>
          [] sh = "Fish" -> <<bin_name, " completions fish | source">>
          [] sh = "PowerShell" ->
                <<bin_name, " completions powershell | Out-String | Invoke-Expression">>
          [] sh = "Elvish" -> <<bin_name, " completions elvish | eval">>
          [] OTHER -> <<bin_name, " completions ", sh>>)
    \o <<"\n\n">>

BASH_HELPERS ==
    <<NL,
      "# Dynamic profile helpers appended by prompter.", NL,
      "__prompter_bash_config_value() {", NL,
      SP4, "local idx=1", NL,
      SP4, "local total=${#COMP_WORDS[@]}", NL,
      SP4, "while [[ ${idx} -lt ${total} ]]; do", NL,
      SP4, SP4, "case \"${COMP_WORDS[idx]}\" in", NL,
      SP4, SP4, SP4, "--config|-c)", NL,
      SP4, SP4, SP4, SP4, "if [[ $((idx + 1)) -lt ${total} ]]; then", NL,
      SP4, SP4, SP4, SP4, SP4, "echo \"${COMP_WORDS[idx+1]}\"", NL,
      SP4, SP4, SP4, SP4, "fi", NL,
      SP4, SP4, SP4, SP4, "return", NL,
      SP4, SP4, SP4, SP4, ";;", NL,
      SP4, SP4, "esac", NL,
      SP4, SP4, "((idx++))", NL,
      SP4, "done", NL,
      "}", NL,
      NL,
      "__prompter_bash_list_profiles() {", NL,
      SP4, "local cfg=\"$(__prompter_bash_config_value)\"", NL,
      SP4, "if [[ -n \"${cfg}\" ]]; then", NL,
      SP4, SP4, "prompter list --config", " \"${cfg}\" 2>/dev/null", NL,
      SP4, "else", NL,
      SP4, SP4, "prompter list 2>/dev/null", NL,
      SP4, "fi", NL,
      "}", NL>>

ZSH_HELPERS ==
    <<NL,
      "_prompter_config_value() {", NL,
      SP4, "local idx=1", NL,
      SP4, "local count=$#words", NL,
      SP4, "while (( idx <= count )); do", NL,
      SP4, SP4, "case ${words[idx]} in", NL,
      SP4, SP4, SP4, "--config|-c)", NL,
      SP4, SP4, SP4, SP4, "(( idx++ ))", NL,
      SP4, SP4, SP4, SP4, "if (( idx <= count )); then", NL,
      SP4, SP4, SP4, SP4, SP4, "echo ${words[idx]}", NL,
      SP4, SP4, SP4, SP4, "fi", NL,
      SP4, SP4, SP4, SP4, "return", NL,
      SP4, SP4, SP4, SP4, ";;", NL,
      SP4, SP4, "esac", NL,
      SP4, SP4, "(( idx++ ))", NL,
      SP4, "done", NL,
      "}", NL,
      NL,
      "_prompter_dynamic_profiles() {", NL,
      SP4, "local cfg=$(_prompter_config_value)", NL,
      SP4, "local -a profiles", NL,
      SP4, "if [[ -n ${cfg} ]]; then", NL,
      SP4, SP4, "profiles=(${(f)\"$(", "prompter list --config", " ${cfg:q} 2>/dev/null)\"})", NL,
      SP4, "else", NL,
      SP4, SP4, "profiles=(${(f)\"$(prompter list 2>/dev/null)\"})", NL,
      SP4, "fi", NL,
      SP4, "if (( ${#profiles} )); then", NL,
      SP4, SP4, "compadd -a profiles", NL,
      SP4, SP4, "return 0", NL,
      SP4, "fi", NL,
      SP4, "return 1", NL,
      "}", NL>>

FISH_COMPLETE_TOP ==
    "complete -c prompter -n \"__fish_prompter_needs_command\" -f -a \"(__fish_prompter__profiles)\" -d 'Profile'"
FISH_COMPLETE_RUN ==
    "complete -c prompter -n \"__fish_prompter_using_subcommand run\" -f -a \"(__fish_prompter__profiles)\" -d 'Profile'"

FISH_HELPERS ==
    <<NL,
      "function __fish_prompter__config_arg", NL,
      TAB, "set -l tokens (commandline -opc)", NL,
      TAB, "set -e tokens[1]", NL,
      TAB, "for idx in (seq (count $tokens))", NL,
      TAB, TAB, "switch $tokens[$idx]", NL,
      TAB, TAB, TAB, "case '--config'", NL,
      TAB, TAB, TAB, TAB, "set -l next (math $idx + 1)", NL,
      TAB, TAB, TAB, TAB, "if test $next -le (count $tokens)", NL,
      TAB, TAB, TAB, TAB, TAB, "echo $tokens[$next]", NL,
      TAB, TAB, TAB, TAB, "end", NL,
      TAB, TAB, TAB, TAB, "return", NL,
      TAB, TAB, TAB, "case '-c'", NL,
      TAB, TAB, TAB, TAB, "set -l next (math $idx + 1)", NL,
      TAB, TAB, TAB, TAB, "if test $next -le (count $tokens)", NL,
      TAB, TAB, TAB, TAB, TAB, "echo $tokens[$next]", NL,
      TAB, TAB, TAB, TAB, "end", NL,
      TAB, TAB, TAB, TAB, "return", NL,
      TAB, TAB, "end", NL,
      TAB, "end", NL,
      "end", NL,
      NL,
      "function __fish_prompter__profiles", NL,
      TAB, "set -l cfg (__fish_prompter__config_arg)", NL,
      TAB, "if test -n \"$cfg\"", NL,
      TAB, TAB, "prompter list --config", " \"$cfg\" 2>/dev/null", NL,
      TAB, "else", NL,
      TAB, TAB, "prompter list 2>/dev/null", NL,
      TAB, "end", NL,
      "end", NL,
      NL,
      FISH_COMPLETE_TOP, NL,
      FISH_COMPLETE_RUN, NL>>

augment_bash_KeepsRootBlock(s) ==
    LET run == replace_case_block(s, "prompter__run", RUN_REPLACEMENT) IN
    IF run.panic # NoPanic THEN run
    ELSE [script |-> push_str(run.script, BASH_HELPERS), panic |-> NoPanic]

augment_bash(s) ==
    LET root == replace_case_block(s, "prompter", ROOT_REPLACEMENT) IN
    IF root.panic # NoPanic THEN root
    ELSE LET run == replace_case_block(root.script, "prompter__run", RUN_REPLACEMENT) IN
         IF run.panic # NoPanic THEN run
         ELSE [script |-> push_str(run.script, BASH_HELPERS), panic |-> NoPanic]

ZSH_ROOT_HEAD == "::profile -- Profile to render (shorthand for 'run `<profile>`')"
ZSH_RUN_HEAD == "*::profiles -- Profile name(s) to render"
ZSH_DEFAULT == ":_default"
\* ":_prompter_dynamic_profiles", in two units: it is longer than ":_default"
ZSH_DYNAMIC == <<":_prompter_dynamic", "_profiles">>

ROOT_MARKER == <<ZSH_ROOT_HEAD, ZSH_DEFAULT>>
RUN_MARKER_VARIADIC == <<ZSH_RUN_HEAD, ZSH_DEFAULT>>
ROOT_REWRITTEN == <<ZSH_ROOT_HEAD>> \o ZSH_DYNAMIC
RUN_REWRITTEN == <<ZSH_RUN_HEAD>> \o ZSH_DYNAMIC

\* if let Some(start) = script.find(marker) { script.replace_range(..) }
rewrite_marker(s, marker, with) ==
    LET start == find(s, marker) IN
    IF start = -1 THEN s ELSE replace_range(s, start, start + Len(marker), with)

augment_zsh_RunNeedsRoot(s) ==
    LET start == find(s, ROOT_MARKER) IN
    [script |->
        push_str(IF start = -1 THEN s
                 ELSE rewrite_marker(
                          replace_range(s, start, start + Len(ROOT_MARKER), ROOT_REWRITTEN),
                          RUN_MARKER_VARIADIC, RUN_REWRITTEN),
                 ZSH_HELPERS),
     panic |-> NoPanic]

augment_zsh(s) ==
    LET rooted == rewrite_marker(s, ROOT_MARKER, ROOT_REWRITTEN)
        both == rewrite_marker(rooted, RUN_MARKER_VARIADIC, RUN_REWRITTEN)
    IN  [script |-> push_str(both, ZSH_HELPERS), panic |-> NoPanic]

augment_fish_Prepends(s) == [script |-> push_str(FISH_HELPERS, s), panic |-> NoPanic]

augment_fish(s) == [script |-> push_str(s, FISH_HELPERS), panic |-> NoPanic]

augment_FishUnmatched(sh, s) ==
    CASE sh = "Bash" -> augment_bash(s)
      [] sh = "Zsh" -> augment_zsh(s)
      [] OTHER -> [script |-> s, panic |-> NoPanic]

\* generate's match on the shell
augment(sh, s) ==
    CASE sh = "Bash" -> augment_bash(s)
      [] sh = "Zsh" -> augment_zsh(s)
      [] sh = "Fish" -> augment_fish(s)
      [] OTHER -> [script |-> s, panic |-> NoPanic]

\* String::from_utf8(buffer) is Ok
valid_utf8(buffer) == \A i \in 1..Len(buffer) : buffer[i] # INVALID

\* The chunks the external generator may emit for a shell: the patterns the
\* shell's augmenter looks for, their pieces, and other text.
Chunks(sh) ==
    {<<"x">>, <<INVALID>>}
    \cup (CASE sh = "Bash" ->
                {Pattern("prompter"), Pattern("prompter__run"), TERMINATOR,
                 <<PROFILE>>, <<NL>>}
            [] sh = "Zsh" ->
                {ROOT_MARKER, RUN_MARKER_VARIADIC, <<ZSH_ROOT_HEAD>>, <<ZSH_RUN_HEAD>>,
                 <<ZSH_DEFAULT>>}
            [] sh = "Fish" -> {<<PROFILE>>, <<NL>>, <<FISH_COMPLETE_TOP>>}
            [] OTHER -> {<<NL>>})

Init ==
    /\ pc = "emit"
    /\ emitted = 0
    /\ shell \in Shells
    /\ raw = <<>>
    /\ script = <<>>
    /\ call = <<>>
    /\ panic = NoPanic
    /\ out = <<>>
    /\ IdleShell

\* clap_complete::generate(shell, &mut cmd, bin_name, &mut buffer)
Emit(chunk) ==
    /\ pc = "emit"
    /\ emitted < MaxChunks
    /\ emitted' = emitted + 1
    /\ script' = push_str(script, chunk)
    /\ UNCHANGED <<pc, shell, raw, call, panic, out>>
    /\ UNCHANGED shellVars

\* What the sink holds after a write_all that failed having passed on the
\* first k units of bytes.
partial(sink, bytes, k) == IF k = 0 THEN sink ELSE Append(sink, SubSeq(bytes, 1, k))

PartialLengths(bytes) == {k \in 0..MaxPartial : k < Len(bytes)} \cup {0}

\* What the sink holds after a successful write_all.
write_all(sink, bytes) == Append(sink, bytes)

Augment_WritesBannerFirst ==
    /\ pc = "emit"
    /\ raw' = script
    /\ out' = write_all(out, render_instructions(shell, BinName))
    /\ IF ~valid_utf8(script)
       THEN /\ pc' = "panicked"
            /\ panic' = <<"clap_complete output must be valid UTF-8">>
            /\ script' = script
       ELSE LET r == augment(shell, script) IN
            /\ script' = r.script
            /\ panic' = r.panic
            /\ pc' = IF r.panic = NoPanic THEN "banner_written" ELSE "panicked"
    /\ UNCHANGED <<emitted, shell, call>>
    /\ UNCHANGED shellVars

\* generate, from String::from_utf8 to the end of the match on the shell
Augment ==
    /\ pc = "emit"
    /\ raw' = script
    /\ IF ~valid_utf8(script)
       THEN /\ pc' = "panicked"
            /\ panic' = <<"clap_complete output must be valid UTF-8">>
            /\ script' = script
       ELSE LET r == augment(shell, script) IN
            /\ script' = r.script
            /\ panic' = r.panic
            /\ pc' = IF r.panic = NoPanic THEN "augmented" ELSE "panicked"
    /\ UNCHANGED <<emitted, shell, call, out>>
    /\ UNCHANGED shellVars

WriteInstructions ==
    /\ pc = "augmented"
    /\ out' = write_all(out, render_instructions(shell, BinName))
    /\ pc' = "banner_written"
    /\ UNCHANGED <<emitted, shell, raw, script, call, panic>>
    /\ UNCHANGED shellVars

WriteInstructionsFails ==
    /\ pc = "augmented"
    /\ \E k \in PartialLengths(render_instructions(shell, BinName)) :
          out' = partial(out, render_instructions(shell, BinName), k)
    /\ pc' = "panicked"
    /\ panic' = <<"failed to write completion instructions">>
    /\ UNCHANGED <<emitted, shell, raw, script, call>>
    /\ UNCHANGED shellVars

WriteScript ==
    /\ pc = "banner_written"
    /\ out' = write_all(out, script)
    /\ pc' = "done"
    /\ UNCHANGED <<emitted, shell, raw, script, call, panic>>
    /\ UNCHANGED shellVars

WriteScriptFails ==
    /\ pc = "banner_written"
    /\ \E k \in PartialLengths(script) : out' = partial(out, script, k)
    /\ pc' = "panicked"
    /\ panic' = <<"failed to write completion script">>
    /\ UNCHANGED <<emitted, shell, raw, script, call>>
    /\ UNCHANGED shellVars

Next ==
    \/ \E chunk \in Chunks(shell) : Emit(chunk)
    \/ Augment
    \/ WriteInstructions
    \/ WriteInstructionsFails
    \/ WriteScript
    \/ WriteScriptFails

Spec == Init /\ [][Next]_vars

\* Declarative reading of the text: pat occurs in s at offset i.
OccursAt(s, pat, i) ==
    /\ i >= 0
    /\ i + Len(pat) <= Len(s)
    /\ \A k \in 1..Len(pat) : s[i + k] = pat[k]

\* i is the first offset at or after lo where pat occurs in s.
FirstAt(s, pat, lo, i) ==
    /\ i >= lo
    /\ OccursAt(s, pat, i)
    /\ \A k \in lo..(i - 1) : ~OccursAt(s, pat, k)

Called == pc \in {"returned", "panicked"}

\* C1: when the start pattern of the label occurs and a terminator occurs at
\* or after its first occurrence, replace_case_block returns, and the buffer
\* is then everything before the first start pattern, the replacement, and
\* everything after the first terminator at or after it, terminator removed.
C1_ReplacesExactSpan ==
    Called =>
        \A i \in 0..Len(raw) : FirstAt(raw, Pattern(call[1]), 0, i) =>
        \A j \in i..Len(raw) : FirstAt(raw, TERMINATOR, i, j) =>
            /\ pc = "returned"
            /\ panic = NoPanic
            /\ script = SubSeq(raw, 1, i) \o call[2]
                          \o SubSeq(raw, j + Len(TERMINATOR) + 1, Len(raw))

\* A call that replaced a block with text before it, text after it, and an
\* earlier terminator that the search had to skip.
C1_Witness ==
    /\ pc = "returned"
    /\ \E i \in 1..Len(raw), j \in 0..Len(raw), k \in 0..Len(raw) :
          /\ FirstAt(raw, Pattern(call[1]), 0, i)
          /\ FirstAt(raw, TERMINATOR, i, j)
          /\ OccursAt(raw, TERMINATOR, k)
          /\ k < i
          /\ j + Len(TERMINATOR) < Len(raw)

\* C2: replace_case_block panics, naming the label, when the start pattern
\* does not occur, and when no terminator occurs at or after the first start
\* pattern (an earlier terminator does not count); the buffer is then as it
\* was before the call.
C2_PanicsWithoutAnchor ==
    Called =>
        LET label == call[1]
            noStart == \A i \in 0..Len(raw) : ~OccursAt(raw, Pattern(label), i)
            noEnd == \E i \in 0..Len(raw) :
                        /\ FirstAt(raw, Pattern(label), 0, i)
                        /\ \A j \in i..Len(raw) : ~OccursAt(raw, TERMINATOR, j)
        IN  /\ noStart => /\ pc = "panicked"
                          /\ panic = <<"expected case block for", label>>
                          /\ script = raw
            /\ noEnd => /\ pc = "panicked"
                        /\ panic = <<"expected terminator for", label, "block">>
                        /\ script = raw
            /\ pc = "panicked" => noStart \/ noEnd

\* A call that panicked for want of a terminator although one occurs before
\* the start pattern.
C2_Witness ==
    /\ pc = "panicked"
    /\ panic = <<"expected terminator for", call[1], "block">>
    /\ \E i \in 0..Len(raw), k \in 0..Len(raw) :
          /\ FirstAt(raw, Pattern(call[1]), 0, i)
          /\ OccursAt(raw, TERMINATOR, k)
          /\ k < i

\* -------------------------------------------------- claims about generate

Augmented == pc \in {"augmented", "banner_written", "done"}

\* The number of times unit u occurs in s.
Count(s, u) == Cardinality({i \in 1..Len(s) : s[i] = u})

\* The number of times unit u occurs in s at offsets lo..hi-1.
CountIn(s, u, lo, hi) == Cardinality({i \in (lo + 1)..hi : s[i] = u})

\* C3: a generate that succeeded has written exactly two byte sequences, the
\* instruction banner of the shell and then the augmented script, which is
\* the augmenter's output for Bash, Zsh and Fish and the generator's output
\* for every other shell.
C3_BannerThenScript ==
    pc = "done" =>
        /\ panic = NoPanic
        /\ Len(out) = 2
        /\ out[1] = render_instructions(shell, BinName)
        /\ out[2] = (CASE shell = "Bash" -> augment_bash(raw).script
                       [] shell = "Zsh" -> augment_zsh(raw).script
                       [] shell = "Fish" -> augment_fish(raw).script
                       [] OTHER -> raw)

\* A Bash generate that succeeded, both blocks replaced.
C3_Witness ==
    /\ pc = "done"
    /\ shell = "Bash"
    /\ Len(out) = 2
    /\ contains(out[2], RUN_REPLACEMENT)

HelperDefinition(sh) ==
    IF sh = "Bash" THEN "__prompter_bash_list_profiles() {"
    ELSE "function __fish_prompter__profiles"

\* C8 as stated: for Bash and Fish the augmented script contains the text
\* defining the profile-listing helper and its 'prompter list --config'
\* invocation, and never the placeholder [PROFILE], whatever the raw script.
C8_NeverPlaceholder ==
    (Augmented /\ shell \in {"Bash", "Fish"}) =>
        /\ contains(script, <<HelperDefinition(shell)>>)
        /\ contains(script, <<"prompter list --config">>)
        /\ ~contains(script, <<PROFILE>>)

\* C8, amended: for Bash and Fish an augmentation that completed leaves the
\* helper's defining text and its 'prompter list --config' invocation in the
\* script and adds no [PROFILE].  Fish keeps every [PROFILE] of the raw
\* script.  Bash keeps at most those of the raw script, and when the run
\* block starts after the root block's terminator it keeps exactly those
\* outside the two blocks.
C8_HelperPresentPlaceholderNotAdded ==
    (Augmented /\ shell \in {"Bash", "Fish"}) =>
        /\ contains(script, <<HelperDefinition(shell)>>)
        /\ contains(script, <<"prompter list --config">>)
        /\ Count(script, PROFILE) <= Count(raw, PROFILE)
        /\ shell = "Fish" => Count(script, PROFILE) = Count(raw, PROFILE)
        /\ shell = "Bash" =>
              \A i1 \in 0..Len(raw) : FirstAt(raw, Pattern("prompter"), 0, i1) =>
              \A j1 \in i1..Len(raw) : FirstAt(raw, TERMINATOR, i1, j1) =>
              \A i2 \in (j1 + Len(TERMINATOR))..Len(raw) :
                  FirstAt(raw, Pattern("prompter__run"), 0, i2) =>
              \A j2 \in i2..Len(raw) : FirstAt(raw, TERMINATOR, i2, j2) =>
                  Count(script, PROFILE) =
                      Count(raw, PROFILE)
                        - CountIn(raw, PROFILE, i1, j1)
                        - CountIn(raw, PROFILE, i2, j2)

\* A Bash augmentation that removed the [PROFILE] of one of the blocks.
C8_Witness ==
    /\ Augmented
    /\ shell = "Bash"
    /\ Count(raw, PROFILE) = 1
    /\ Count(script, PROFILE) = 0

\* i is the offset of the first match of pat in s, or -1 when there is none.
FirstOrNone(s, pat, i) ==
    \/ FirstAt(s, pat, 0, i)
    \/ i = -1 /\ \A k \in 0..Len(s) : ~OccursAt(s, pat, k)

\* s with the len units at offset at replaced by with; s itself when at = -1.
Spliced(s, at, len, with) ==
    IF at = -1 THEN s
    ELSE SubSeq(s, 1, at) \o with \o SubSeq(s, at + len + 1, Len(s))

\* C9: augment_zsh never fails.  The first occurrence of each marker the raw
\* script contains is rewritten to end in the dynamic completion function,
\* whether or not the other marker occurs; everything else of the raw script
\* is kept, and the helper block follows it.
C9_MarkersRewrittenIndependently ==
    (shell = "Zsh" /\ pc # "emit" /\ valid_utf8(raw)) =>
        /\ panic \in {NoPanic, <<"failed to write completion instructions">>,
                      <<"failed to write completion script">>}
        /\ \A r \in -1..Len(raw) : FirstOrNone(raw, ROOT_MARKER, r) =>
           \A v \in -1..Len(raw) : FirstOrNone(raw, RUN_MARKER_VARIADIC, v) =>
              script =
                  (IF r < v
                   THEN Spliced(Spliced(raw, v, Len(RUN_MARKER_VARIADIC), RUN_REWRITTEN),
                                r, Len(ROOT_MARKER), ROOT_REWRITTEN)
                   ELSE Spliced(Spliced(raw, r, Len(ROOT_MARKER), ROOT_REWRITTEN),
                                v, Len(RUN_MARKER_VARIADIC), RUN_REWRITTEN))
                  \o ZSH_HELPERS

\* A Zsh augmentation of a raw script that has the run marker and not the
\* root marker.
C9_Witness ==
    /\ shell = "Zsh"
    /\ Augmented
    /\ contains(raw, RUN_MARKER_VARIADIC)
    /\ ~contains(raw, ROOT_MARKER)
    /\ contains(script, RUN_REWRITTEN)
    /\ ~contains(script, RUN_MARKER_VARIADIC)

\* C10: augment_fish only appends: the raw script is a prefix of the
\* augmented script, and the appended text holds exactly two registrations
\* that use __fish_prompter__profiles, the top-level one and the one of the
\* run subcommand.
C10_FishAppendsTwoRegistrations ==
    (shell = "Fish" /\ Augmented) =>
        /\ Len(script) >= Len(raw)
        /\ SubSeq(script, 1, Len(raw)) = raw
        /\ LET appended == SubSeq(script, Len(raw) + 1, Len(script)) IN
              /\ Count(appended, FISH_COMPLETE_TOP) = 1
              /\ Count(appended, FISH_COMPLETE_RUN) = 1
              /\ Count(appended, "function __fish_prompter__profiles") = 1

\* A Fish augmentation of a raw script that is not empty.
C10_Witness ==
    /\ shell = "Fish"
    /\ Augmented
    /\ raw # <<>>
    /\ script # raw

\* The panics of the augmentation pass: the generator's output is not valid
\* text, or a Bash anchor or terminator is missing.
AugmentationPanics ==
    {<<"clap_complete output must be valid UTF-8">>}
    \cup {<<"expected case block for", label>> : label \in Labels}
    \cup {<<"expected terminator for", label, "block">> : label \in Labels}

\* C11: the sink receives nothing before the augmentation pass has finished,
\* so a generate that failed in that pass has written nothing, not even the
\* banner; and a failed generate has left the whole banner and no script in
\* the sink only when its second write failed.
C11_NothingWrittenBeforeAugmentation ==
    /\ pc \in {"emit", "augmented"} => out = <<>>
    /\ pc = "panicked" =>
          /\ panic \in AugmentationPanics
                \cup {<<"failed to write completion instructions">>,
                      <<"failed to write completion script">>}
          /\ panic \in AugmentationPanics => out = <<>>
          /\ out = <<render_instructions(shell, BinName)>> =>
                panic = <<"failed to write completion script">>

\* A Bash generate that replaced the root block, then panicked for want of
\* the run block's terminator, the sink still empty.
C11_Witness ==
    /\ pc = "panicked"
    /\ shell = "Bash"
    /\ panic = <<"expected terminator for", "prompter__run", "block">>
    /\ contains(raw, Pattern("prompter") \o TERMINATOR)
    /\ out = <<>>


\* ------------------------------------------- the emitted shell functions
\* What the functions of BASH_HELPERS, ZSH_HELPERS and FISH_HELPERS and the
\* two case blocks do when a shell runs them.  A word is a sequence of
\* characters; what a function prints is given as a command substitution
\* captures it, without the final newline.

\* The words of the option lists, one character a unit.
OPT_s == <<"-", "s">>
OPT_p == <<"-", "p">>
OPT_P == <<"-", "P">>
OPT_c == <<"-", "c">>
OPT_h == <<"-", "h">>
OPT_V == <<"-", "V">>
OPT_separator == <<"-", "-", "s", "e", "p", "a", "r", "a", "t", "o", "r">>
OPT_pre_prompt == <<"-", "-", "p", "r", "e", "-", "p", "r", "o", "m", "p", "t">>
OPT_post_prompt == <<"-", "-", "p", "o", "s", "t", "-", "p", "r", "o", "m", "p", "t">>
OPT_config == <<"-", "-", "c", "o", "n", "f", "i", "g">>
OPT_help == <<"-", "-", "h", "e", "l", "p">>
OPT_version == <<"-", "-", "v", "e", "r", "s", "i", "o", "n">>
CMD_version == <<"v", "e", "r", "s", "i", "o", "n">>
CMD_license == <<"l", "i", "c", "e", "n", "s", "e">>
CMD_init == <<"i", "n", "i", "t">>
CMD_list == <<"l", "i", "s", "t">>
CMD_validate == <<"v", "a", "l", "i", "d", "a", "t", "e">>
CMD_run == <<"r", "u", "n">>
CMD_completions == <<"c", "o", "m", "p", "l", "e", "t", "i", "o", "n", "s">>
CMD_doctor == <<"d", "o", "c", "t", "o", "r">>
CMD_update == <<"u", "p", "d", "a", "t", "e">>
CMD_help == <<"h", "e", "l", "p">>

\* opts of the root block, split into words
ROOT_OPTS ==
    <<OPT_s, OPT_p, OPT_P, OPT_c, OPT_h, OPT_V, OPT_separator, OPT_pre_prompt,
      OPT_post_prompt, OPT_config, OPT_help, OPT_version, CMD_version, CMD_license,
      CMD_init, CMD_list, CMD_validate, CMD_run, CMD_completions, CMD_doctor,
      CMD_update, CMD_help>>

\* opts of the run block, split into words
RUN_OPTS ==
    <<OPT_s, OPT_p, OPT_P, OPT_c, OPT_h, OPT_separator, OPT_pre_prompt,
      OPT_post_prompt, OPT_config, OPT_help>>

\* The program name, first word of every command line.
PROGRAM == <<"p", "r", "o", "m", "p", "t", "e", "r">>
\* The empty word.
EMPTY == <<>>
\* "/tmp/x.toml"
CONFIG_PATH == <<"/", "t", "m", "p", "/", "x", ".", "t", "o", "m", "l">>
\* "y"
OTHER_PATH == <<"y">>
\* "-n", which echo reads as an option
DASH_N == <<"-", "n">>
\* "a\t", a backslash escape to zsh's echo
ESCAPED == <<"a", "\\", "t">>
\* "-" and "d", partly typed words
DASH == <<"-">>
LETTER_D == <<"d">>
\* profile names
PROFILE_dev == <<"d", "e", "v">>
PROFILE_docs == <<"d", "o", "c", "s">>
\* file names of the working directory
FILES == <<<<"d", "i", "r">>, <<"r", "c">>>>

\* echo reads its first argument as options when it is a dash followed by
\* option letters only.
is_echo_options(word, letters) ==
    /\ Len(word) >= 2
    /\ word[1] = "-"
    /\ \A k \in 2..Len(word) : word[k] \in letters

\* echo "${COMP_WORDS[idx+1]}" in bash
bash_echo(word) == IF is_echo_options(word, {"n", "e", "E"}) THEN <<>> ELSE word

\* The backslash escapes zsh's echo expands, of those that occur here.
RECURSIVE zsh_unescape(_)
zsh_unescape(word) ==
    IF word = <<>> THEN <<>>
    ELSE IF Len(word) >= 2 /\ word[1] = "\\" /\ word[2] = "t"
         THEN <<"\t">> \o zsh_unescape(SubSeq(word, 3, Len(word)))
    ELSE IF Len(word) >= 2 /\ word[1] = "\\" /\ word[2] = "\\"
         THEN <<"\\">> \o zsh_unescape(SubSeq(word, 3, Len(word)))
    ELSE <<word[1]>> \o zsh_unescape(Tail(word))

\* echo ${words[idx]} in zsh: a single dash ends the options and is not
\* printed.
zsh_echo(word) ==
    IF word = <<"-">> \/ is_echo_options(word, {"n", "e", "E"}) THEN <<>>
    ELSE zsh_unescape(word)

\* echo $tokens[$next] in fish
fish_echo(word) == IF is_echo_options(word, {"n", "s", "e", "E"}) THEN <<>> ELSE word

\* The while loop of __prompter_bash_config_value from idx on; the array
\* counts from 0, so COMP_WORDS[idx] is w[idx + 1].
RECURSIVE bash_config_scan(_, _)
bash_config_scan(w, idx) ==
    IF ~(idx < Len(w)) THEN <<>>
    ELSE IF w[idx + 1] \in {OPT_config, OPT_c}
         THEN IF idx + 1 < Len(w) THEN bash_echo(w[idx + 2]) ELSE <<>>
    ELSE bash_config_scan(w, idx + 1)

RECURSIVE bash_config_scan_EchoesFlag(_, _)
bash_config_scan_EchoesFlag(w, idx) ==
    IF ~(idx < Len(w)) THEN <<>>
    ELSE IF w[idx + 1] \in {OPT_config, OPT_c}
         THEN IF idx + 1 < Len(w) THEN bash_echo(w[idx + 1]) ELSE <<>>
    ELSE bash_config_scan_EchoesFlag(w, idx + 1)

__prompter_bash_config_value_EchoesFlag(COMP_WORDS) ==
    bash_config_scan_EchoesFlag(COMP_WORDS, 1)

__prompter_bash_config_value(COMP_WORDS) == bash_config_scan(COMP_WORDS, 1)

\* The while loop of _prompter_config_value from idx on; the array counts
\* from 1, so the scan starts at the program name.
RECURSIVE zsh_config_scan(_, _)
zsh_config_scan(w, idx) ==
    IF ~(idx <= Len(w)) THEN <<>>
    ELSE IF w[idx] \in {OPT_config, OPT_c}
         THEN IF idx + 1 <= Len(w) THEN zsh_echo(w[idx + 1]) ELSE <<>>
    ELSE zsh_config_scan(w, idx + 1)

_prompter_config_value(w) == zsh_config_scan(w, 1)

\* The for loop of __fish_prompter__config_arg from idx on.
RECURSIVE fish_config_scan(_, _)
fish_config_scan(tokens, idx) ==
    IF idx > Len(tokens) THEN <<>>
    ELSE IF tokens[idx] = OPT_config
         THEN IF idx + 1 <= Len(tokens) THEN fish_echo(tokens[idx + 1]) ELSE <<>>
    ELSE IF tokens[idx] = OPT_c
         THEN IF idx + 1 <= Len(tokens) THEN fish_echo(tokens[idx + 1]) ELSE <<>>
    ELSE fish_config_scan(tokens, idx + 1)

\* commandline -opc: the words before the one the cursor is in
commandline_opc(w, cw) == SubSeq(w, 1, cw - 1)

__fish_prompter__config_arg(w, cw) ==
    LET tokens == commandline_opc(w, cw)
        erased == IF tokens = <<>> THEN <<>> ELSE Tail(tokens)
    IN  fish_config_scan(erased, 1)

\* ------------------------------------------- specification SpecConfig
\* The three config-path helpers on every command line of the program name
\* and at most MaxWords further words, the last of which may be the word
\* being completed.

ConfigTokens == {OPT_config, OPT_c, CONFIG_PATH, OTHER_PATH, DASH_N, ESCAPED, EMPTY}

ConfigHelpers ==
    {"__prompter_bash_config_value", "_prompter_config_value",
     "__fish_prompter__config_arg"}

CommandLines(tokens, max) ==
    UNION {{<<PROGRAM>> \o t : t \in [1..n -> tokens]} : n \in 1..max}

InitConfig ==
    /\ IdleGen
    /\ words \in CommandLines(ConfigTokens, MaxWords)
    /\ cword \in 2..Len(words)
    /\ listing = <<>>
    /\ helper = "none"
    /\ output = <<>>
    /\ COMPREPLY = <<>>
    /\ listCmds = <<>>

BashConfigValue ==
    /\ helper = "none"
    /\ helper' = "__prompter_bash_config_value"
    /\ output' = __prompter_bash_config_value(words)
    /\ UNCHANGED <<words, cword, listing, COMPREPLY, listCmds>>
    /\ UNCHANGED genVars

ZshConfigValue ==
    /\ helper = "none"
    /\ helper' = "_prompter_config_value"
    /\ output' = _prompter_config_value(words)
    /\ UNCHANGED <<words, cword, listing, COMPREPLY, listCmds>>
    /\ UNCHANGED genVars

FishConfigArg ==
    /\ helper = "none"
    /\ helper' = "__fish_prompter__config_arg"
    /\ output' = __fish_prompter__config_arg(words, cword)
    /\ UNCHANGED <<words, cword, listing, COMPREPLY, listCmds>>
    /\ UNCHANGED genVars

NextConfig ==
    \/ BashConfigValue
    \/ ZshConfigValue
    \/ FishConfigArg

SpecConfig == InitConfig /\ [][NextConfig]_vars

IsFlag(word) == word = OPT_config \/ word = OPT_c

\* A word that no echo reads as options or expands.
Plain(word) ==
    /\ ~(Len(word) >= 1 /\ word[1] = "-"
           /\ \A k \in 2..Len(word) : word[k] \in {"n", "e", "E", "s"})
    /\ \A k \in 1..Len(word) : word[k] # "\\"

\* C4 as stated: whenever '--config V' or '-c V' stands anywhere before the
\* word being completed, each helper prints exactly V; when no word is
\* '--config' or '-c', it prints nothing.
C4_AnyFlagValue ==
    helper \in ConfigHelpers =>
        /\ \A i \in 2..(cword - 2) : IsFlag(words[i]) => output = words[i + 1]
        /\ (\A i \in 1..Len(words) : ~IsFlag(words[i])) => output = <<>>

\* C4, amended: when the first '--config' or '-c' after the program name is
\* followed by a word V, both before the word being completed, and V is a
\* word that echo prints as it is, each helper prints exactly V; when no
\* word is '--config' or '-c', it prints nothing.
C4_FirstFlagValue ==
    helper \in ConfigHelpers =>
        /\ \A i \in 2..(cword - 2) :
              ( /\ IsFlag(words[i])
                /\ \A k \in 2..(i - 1) : ~IsFlag(words[k])
                /\ Plain(words[i + 1]) )
              => output = words[i + 1]
        /\ (\A i \in 1..Len(words) : ~IsFlag(words[i])) => output = <<>>

\* The fish helper printing the path that follows '-c', a word standing
\* before the flag.
C4_Witness ==
    /\ helper = "__fish_prompter__config_arg"
    /\ cword = 5
    /\ words[2] = OTHER_PATH
    /\ words[3] = OPT_c
    /\ words[4] = CONFIG_PATH
    /\ output = CONFIG_PATH

\* --------------------------------------------- the patched Bash blocks

\* [[ ${cur} == -* ]]
starts_with_dash(cur) == Len(cur) >= 1 /\ cur[1] = "-"

\* compgen -W "<wordlist>" -- "${cur}": the words that begin with cur
compgen_W(wordlist, cur) ==
    LET begins(w) == Len(cur) <= Len(w) /\ SubSeq(w, 1, Len(cur)) = cur
    IN  SelectSeq(wordlist, begins)

\* compgen -f -- "${cur}": the file names that begin with cur
compgen_f(cur) == compgen_W(FILES, cur)

\* What `prompter list` can do when a completion runs it: print the profile
\* names, one a line, or fail, its standard output empty.
ListingOutcomes ==
    {[ok |-> FALSE, stdout |-> <<>>],
     [ok |-> TRUE, stdout |-> <<>>],
     [ok |-> TRUE, stdout |-> <<PROFILE_dev>>],
     [ok |-> TRUE, stdout |-> <<PROFILE_docs, CMD_run>>]}

\* The command line __prompter_bash_list_profiles runs.
__prompter_bash_list_profiles(COMP_WORDS) ==
    LET cfg == __prompter_bash_config_value(COMP_WORDS) IN
    IF cfg # <<>> THEN <<"prompter", "list", "--config", cfg>>
    ELSE <<"prompter", "list">>

bash_root_block_NoFallback(cur, prev, COMP_WORDS, env) ==
    IF starts_with_dash(cur)
    THEN [COMPREPLY |-> compgen_W(ROOT_OPTS, cur), listCmds |-> <<>>]
    ELSE IF prev \in {OPT_config, OPT_c}
    THEN [COMPREPLY |-> compgen_f(cur), listCmds |-> <<>>]
    ELSE IF prev \in {OPT_separator, OPT_s, OPT_pre_prompt, OPT_p, OPT_post_prompt, OPT_P}
    THEN [COMPREPLY |-> <<>>, listCmds |-> <<>>]
    ELSE LET profiles == env.stdout IN
         [COMPREPLY |-> IF profiles # <<>>
                        THEN compgen_W(ROOT_OPTS \o profiles, cur)
                        ELSE <<>>,
          listCmds |-> <<__prompter_bash_list_profiles(COMP_WORDS)>>]

\* The case block ROOT_REPLACEMENT puts in place, run with COMPREPLY empty:
\* the candidates it leaves in COMPREPLY and the commands it spawned.
bash_root_block(cur, prev, COMP_WORDS, env) ==
    IF starts_with_dash(cur)
    THEN [COMPREPLY |-> compgen_W(ROOT_OPTS, cur), listCmds |-> <<>>]
    ELSE IF prev \in {OPT_config, OPT_c}
    THEN [COMPREPLY |-> compgen_f(cur), listCmds |-> <<>>]
    ELSE IF prev \in {OPT_separator, OPT_s, OPT_pre_prompt, OPT_p, OPT_post_prompt, OPT_P}
    THEN [COMPREPLY |-> <<>>, listCmds |-> <<>>]
    ELSE LET profiles == env.stdout IN
         [COMPREPLY |-> IF profiles # <<>>
                        THEN compgen_W(ROOT_OPTS \o profiles, cur)
                        ELSE compgen_W(ROOT_OPTS, cur),
          listCmds |-> <<__prompter_bash_list_profiles(COMP_WORDS)>>]

bash_run_block_OffersOptions(cur, prev, COMP_WORDS, env) ==
    IF starts_with_dash(cur)
    THEN [COMPREPLY |-> compgen_W(RUN_OPTS, cur), listCmds |-> <<>>]
    ELSE IF prev \in {OPT_config, OPT_c}
    THEN [COMPREPLY |-> compgen_f(cur), listCmds |-> <<>>]
    ELSE IF prev \in {OPT_separator, OPT_s, OPT_pre_prompt, OPT_p, OPT_post_prompt, OPT_P}
    THEN [COMPREPLY |-> <<>>, listCmds |-> <<>>]
    ELSE LET profiles == env.stdout IN
         [COMPREPLY |-> IF profiles # <<>>
                        THEN compgen_W(RUN_OPTS \o profiles, cur)
                        ELSE <<>>,
          listCmds |-> <<__prompter_bash_list_profiles(COMP_WORDS)>>]

bash_run_block_NoPrevCase(cur, prev, COMP_WORDS, env) ==
    IF starts_with_dash(cur)
    THEN [COMPREPLY |-> compgen_W(RUN_OPTS, cur), listCmds |-> <<>>]
    ELSE LET profiles == env.stdout IN
         [COMPREPLY |-> IF profiles # <<>> THEN compgen_W(profiles, cur) ELSE <<>>,
          listCmds |-> <<__prompter_bash_list_profiles(COMP_WORDS)>>]

\* The case block RUN_REPLACEMENT puts in place, run with COMPREPLY empty.
bash_run_block(cur, prev, COMP_WORDS, env) ==
    IF starts_with_dash(cur)
    THEN [COMPREPLY |-> compgen_W(RUN_OPTS, cur), listCmds |-> <<>>]
    ELSE IF prev \in {OPT_config, OPT_c}
    THEN [COMPREPLY |-> compgen_f(cur), listCmds |-> <<>>]
    ELSE IF prev \in {OPT_separator, OPT_s, OPT_pre_prompt, OPT_p, OPT_post_prompt, OPT_P}
    THEN [COMPREPLY |-> <<>>, listCmds |-> <<>>]
    ELSE LET profiles == env.stdout IN
         [COMPREPLY |-> IF profiles # <<>> THEN compgen_W(profiles, cur) ELSE <<>>,
          listCmds |-> <<__prompter_bash_list_profiles(COMP_WORDS)>>]

\* ---------------------------------------------- specification SpecBash
\* The two blocks on every command line of the program name and at most
\* MaxCompWords further words, with the cursor in any of these.

CompTokens ==
    {OPT_config, OPT_c, OPT_separator, OPT_s, OPT_pre_prompt, OPT_p, OPT_post_prompt,
     OPT_P, EMPTY, DASH, LETTER_D, CONFIG_PATH}

\* ${cur} and ${prev} of the completion function
cur == words[cword]
prev == words[cword - 1]

InitBash ==
    /\ IdleGen
    /\ words \in CommandLines(CompTokens, MaxCompWords)
    /\ cword \in 2..Len(words)
    /\ listing \in ListingOutcomes
    /\ helper = "none"
    /\ output = <<>>
    /\ COMPREPLY = <<>>
    /\ listCmds = <<>>

RootBlock ==
    /\ helper = "none"
    /\ helper' = "prompter"
    /\ LET r == bash_root_block(cur, prev, words, listing) IN
          /\ COMPREPLY' = r.COMPREPLY
          /\ listCmds' = r.listCmds
    /\ UNCHANGED <<words, cword, listing, output>>
    /\ UNCHANGED genVars

RunBlock ==
    /\ helper = "none"
    /\ helper' = "prompter__run"
    /\ LET r == bash_run_block(cur, prev, words, listing) IN
          /\ COMPREPLY' = r.COMPREPLY
          /\ listCmds' = r.listCmds
    /\ UNCHANGED <<words, cword, listing, output>>
    /\ UNCHANGED genVars

NextBash ==
    \/ RootBlock
    \/ RunBlock

SpecBash == InitBash /\ [][NextBash]_vars

\* The elements of a sequence.
Range(seq) == {seq[k] : k \in 1..Len(seq)}

BeginsWith(word, start) ==
    /\ Len(start) <= Len(word)
    /\ \A k \in 1..Len(start) : word[k] = start[k]

Dashed(word) == word # <<>> /\ Head(word) = "-"

ConfigFlags == {OPT_config, OPT_c}
FreeTextFlags == {OPT_separator, OPT_s, OPT_pre_prompt, OPT_p, OPT_post_prompt, OPT_P}
ValueFlags == ConfigFlags \cup FreeTextFlags
RunFlags ==
    {OPT_s, OPT_p, OPT_P, OPT_c, OPT_h,
     OPT_separator, OPT_pre_prompt, OPT_post_prompt, OPT_config, OPT_help}
Subcommands ==
    {CMD_version, CMD_license, CMD_init, CMD_list, CMD_validate, CMD_run,
     CMD_completions, CMD_doctor, CMD_update, CMD_help}

Listed == Range(listing.stdout)
ListingGaveNothing == ~listing.ok \/ listing.stdout = <<>>

\* C5: in the root block, a current word that starts with '-' gets the
\* static options that begin with it and the listing is not run; a current
\* word that does not, after a previous word that takes no value, gets the
\* static options and the listed profile names that begin with it; and when
\* the listing fails or prints nothing it still gets the static options that
\* begin with it.
C5_RootCandidates ==
    helper = "prompter" =>
        /\ Dashed(cur) =>
              /\ Range(COMPREPLY) = {w \in Range(ROOT_OPTS) : BeginsWith(w, cur)}
              /\ listCmds = <<>>
        /\ (~Dashed(cur) /\ prev \notin ValueFlags) =>
              /\ Range(COMPREPLY) =
                    {w \in Range(ROOT_OPTS) \cup Listed : BeginsWith(w, cur)}
              /\ Len(listCmds) = 1
              /\ ListingGaveNothing =>
                    Range(COMPREPLY) = {w \in Range(ROOT_OPTS) : BeginsWith(w, cur)}

\* The root block offering a subcommand and a listed profile for "d".
C5_Witness ==
    /\ helper = "prompter"
    /\ cur = LETTER_D
    /\ prev = PROGRAM
    /\ Range(COMPREPLY) = {CMD_doctor, PROFILE_dev}

\* C6 as stated: in both blocks, after '--config' or '-c' the candidates are
\* the files that begin with the current word, after a free-text flag there
\* is no candidate, and the listing is not run, whatever the current word.
C6_NoInjectionAfterValueFlag ==
    helper \in {"prompter", "prompter__run"} =>
        /\ prev \in ConfigFlags =>
              /\ Range(COMPREPLY) = {f \in Range(FILES) : BeginsWith(f, cur)}
              /\ listCmds = <<>>
        /\ prev \in FreeTextFlags =>
              /\ COMPREPLY = <<>>
              /\ listCmds = <<>>

\* C6, amended: the same for every current word that does not start with
\* '-'; a current word that starts with '-' gets the block's static options
\* that begin with it, also after a value-taking flag.  In neither case is
\* the listing run.
C6_NoInjectionUnlessDashed ==
    helper \in {"prompter", "prompter__run"} =>
        /\ (prev \in ConfigFlags /\ ~Dashed(cur)) =>
              /\ Range(COMPREPLY) = {f \in Range(FILES) : BeginsWith(f, cur)}
              /\ listCmds = <<>>
        /\ (prev \in FreeTextFlags /\ ~Dashed(cur)) =>
              /\ COMPREPLY = <<>>
              /\ listCmds = <<>>
        /\ (prev \in ValueFlags /\ Dashed(cur)) =>
              /\ Range(COMPREPLY) =
                    {w \in Range(IF helper = "prompter" THEN ROOT_OPTS ELSE RUN_OPTS) :
                        BeginsWith(w, cur)}
              /\ listCmds = <<>>

\* The run block after '--config' with "d" typed: the file, and neither the
\* listed profile nor a subcommand.
C6_Witness ==
    /\ helper = "prompter__run"
    /\ prev = OPT_config
    /\ cur = LETTER_D
    /\ listing.stdout = <<PROFILE_dev>>
    /\ COMPREPLY = <<<<"d", "i", "r">>>>

\* C7: in the run block, a current word that does not start with '-', after
\* a previous word that takes no value, gets the listed profile names that
\* begin with it and no static flag, and nothing when the listing fails or
\* prints nothing; a current word that starts with '-' gets flags of the run
\* subcommand only, which are options of the root block and no subcommand
\* names.
C7_RunCandidates ==
    helper = "prompter__run" =>
        /\ (~Dashed(cur) /\ prev \notin ValueFlags) =>
              /\ Range(COMPREPLY) = {w \in Listed : BeginsWith(w, cur)}
              /\ Range(COMPREPLY) \cap RunFlags = {}
              /\ ListingGaveNothing => COMPREPLY = <<>>
        /\ Dashed(cur) =>
              /\ Range(COMPREPLY) = {w \in RunFlags : BeginsWith(w, cur)}
              /\ Range(COMPREPLY) \subseteq Range(ROOT_OPTS)
              /\ Range(COMPREPLY) \cap Subcommands = {}
              /\ listCmds = <<>>

\* The run block offering the one listed profile for the empty word and none
\* of its flags.
C7_Witness ==
    /\ helper = "prompter__run"
    /\ cur = EMPTY
    /\ prev = PROGRAM
    /\ COMPREPLY = <<PROFILE_dev>>

====
